---- MODULE Spec2Model ----
\* Model of src/extract_colors.py: the Playwright colour extractor
\* (extract_colors_from_page, main) and the settings.json launcher script that
\* follows it in the same file (lines 161-200, a separate program).
\*
\* Text the program inspects (property names, property values, rule text) is a
\* sequence of code points, so that startsWith / includes / trim / lower() and
\* the encoding of printed text are computed and not assumed.  Text the program only passes along
\* (URLs, selectors, file contents) is an atomic string.
EXTENDS Integers, Sequences, FiniteSets, TLC

VARIABLES
    pc,            \* position of main() (lines 106-156)
    trace,         \* history: the external calls main() has made, with outcome
    rootStyle,     \* page: getComputedStyle(document.documentElement), in enumeration order
    styleSheets,   \* page: document.styleSheets
    matchCount,    \* page: number of elements each selector matches
    colors_info,   \* the dict extract_colors_from_page builds (line 14)
    scanLog,       \* history: what the element scan's loop did (lines 79-97)
    jsonFile,      \* animate_ui_colors.json
    shots,         \* screenshot files written
    stdout_encoding, \* the encoding of sys.stdout, which print() writes to
    exc,           \* str(e) of the exception the try statement raised (line 146)
    lpc,           \* position of the launcher script (lines 167-200)
    dirExists,     \* ~/.claude exists
    cfg,           \* ~/.claude/settings.json: <<>> absent, <<c>> present with content c
    bak,           \* ~/.claude/settings.json.bak, likewise
    backup_path,   \* the script's variable backup_path (lines 169, 175)
    environ,       \* names set in os.environ by the script
    origCfg,       \* history: settings.json before the script ran
    origBak        \* history: settings.json.bak before the script ran

vars == <<pc, trace, rootStyle, styleSheets, matchCount, colors_info, scanLog,
          jsonFile, shots, stdout_encoding, exc, lpc, dirExists, cfg, bak, backup_path, environ,
          origCfg, origBak>>

inputVars == <<rootStyle, styleSheets, matchCount, stdout_encoding>>
launcherVars == <<lpc, dirExists, cfg, bak, backup_path, environ, origCfg, origBak>>
mainVars == <<pc, trace, colors_info, scanLog, jsonFile, shots, exc>>

\* ---------------------------------------------------------------- bounds
MaxProps == 2      \* properties the root's computed style enumerates
MaxSheets == 2     \* stylesheets of the document
MaxRules == 3      \* rules of the document, over all its stylesheets
MaxMatches == 6    \* elements one selector matches (more than the sample limit)

\* ------------------------------------------------------------------ text
Min(a, b) == IF a < b THEN a ELSE b

\* Python None / JS null, as delivered by page.evaluate
None == "<None>"

EmptyMap == [k \in {} |-> None]
Put(m, k, v) == [x \in (DOMAIN m) \cup {k} |-> IF x = k THEN v ELSE m[x]]

\* JS String.prototype.startsWith
StartsWith(s, pre) ==
    /\ Len(pre) <= Len(s)
    /\ SubSeq(s, 1, Len(pre)) = pre

\* JS String.prototype.includes, Python `sub in s`
Includes(s, sub) ==
    \E i \in 0..(Len(s) - Len(sub)) : SubSeq(s, i + 1, i + Len(sub)) = sub

\* Text is a sequence of code points.

\* ECMAScript WhiteSpace and LineTerminator, what String.prototype.trim strips:
\* TAB LF VT FF CR SP NBSP, U+1680, U+2000-200A, U+2028, U+2029, U+202F,
\* U+205F, U+3000, U+FEFF
Whitespace ==
    {9, 10, 11, 12, 13, 32, 160, 5760} \cup (8192..8202)
    \cup {8232, 8233, 8239, 8287, 12288, 65279}

RECURSIVE TrimStart(_)
TrimStart(s) ==
    IF s # <<>> /\ Head(s) \in Whitespace THEN TrimStart(Tail(s)) ELSE s

RECURSIVE TrimEnd(_)
TrimEnd(s) ==
    IF s # <<>> /\ s[Len(s)] \in Whitespace
    THEN TrimEnd(SubSeq(s, 1, Len(s) - 1))
    ELSE s

\* JS String.prototype.trim
Trim(s) == TrimEnd(TrimStart(s))

\* Simple lowercase mappings of the Unicode character database (14.0, that of
\* CPython 3.11): <<first, last, step, delta>> maps every step-th code point
\* c of first..last to c + delta.
UpperToLower ==
    <<
       <<65, 90, 1, 32>>, <<192, 214, 1, 32>>, <<216, 222, 1, 32>>, <<256, 302, 2, 1>>,
       <<306, 310, 2, 1>>, <<313, 327, 2, 1>>, <<330, 374, 2, 1>>, <<376, 376, 1, -121>>,
       <<377, 381, 2, 1>>, <<385, 385, 1, 210>>, <<386, 388, 2, 1>>, <<390, 390, 1, 206>>,
       <<391, 391, 1, 1>>, <<393, 394, 1, 205>>, <<395, 395, 1, 1>>, <<398, 398, 1, 79>>,
       <<399, 399, 1, 202>>, <<400, 400, 1, 203>>, <<401, 401, 1, 1>>, <<403, 403, 1, 205>>,
       <<404, 404, 1, 207>>, <<406, 406, 1, 211>>, <<407, 407, 1, 209>>, <<408, 408, 1, 1>>,
       <<412, 412, 1, 211>>, <<413, 413, 1, 213>>, <<415, 415, 1, 214>>, <<416, 420, 2, 1>>,
       <<422, 422, 1, 218>>, <<423, 423, 1, 1>>, <<425, 425, 1, 218>>, <<428, 428, 1, 1>>,
       <<430, 430, 1, 218>>, <<431, 431, 1, 1>>, <<433, 434, 1, 217>>, <<435, 437, 2, 1>>,
       <<439, 439, 1, 219>>, <<440, 440, 1, 1>>, <<444, 444, 1, 1>>, <<452, 452, 1, 2>>,
       <<453, 453, 1, 1>>, <<455, 455, 1, 2>>, <<456, 456, 1, 1>>, <<458, 458, 1, 2>>,
       <<459, 475, 2, 1>>, <<478, 494, 2, 1>>, <<497, 497, 1, 2>>, <<498, 500, 2, 1>>,
       <<502, 502, 1, -97>>, <<503, 503, 1, -56>>, <<504, 542, 2, 1>>, <<544, 544, 1, -130>>,
       <<546, 562, 2, 1>>, <<570, 570, 1, 10795>>, <<571, 571, 1, 1>>, <<573, 573, 1, -163>>,
       <<574, 574, 1, 10792>>, <<577, 577, 1, 1>>, <<579, 579, 1, -195>>, <<580, 580, 1, 69>>,
       <<581, 581, 1, 71>>, <<582, 590, 2, 1>>, <<880, 882, 2, 1>>, <<886, 886, 1, 1>>,
       <<895, 895, 1, 116>>, <<902, 902, 1, 38>>, <<904, 906, 1, 37>>, <<908, 908, 1, 64>>,
       <<910, 911, 1, 63>>, <<913, 929, 1, 32>>, <<931, 939, 1, 32>>, <<975, 975, 1, 8>>,
       <<984, 1006, 2, 1>>, <<1012, 1012, 1, -60>>, <<1015, 1015, 1, 1>>, <<1017, 1017, 1, -7>>,
       <<1018, 1018, 1, 1>>, <<1021, 1023, 1, -130>>, <<1024, 1039, 1, 80>>, <<1040, 1071, 1, 32>>,
       <<1120, 1152, 2, 1>>, <<1162, 1214, 2, 1>>, <<1216, 1216, 1, 15>>, <<1217, 1229, 2, 1>>,
       <<1232, 1326, 2, 1>>, <<1329, 1366, 1, 48>>, <<4256, 4293, 1, 7264>>, <<4295, 4295, 1, 7264>>,
       <<4301, 4301, 1, 7264>>, <<5024, 5103, 1, 38864>>, <<5104, 5109, 1, 8>>, <<7312, 7354, 1, -3008>>,
       <<7357, 7359, 1, -3008>>, <<7680, 7828, 2, 1>>, <<7838, 7838, 1, -7615>>, <<7840, 7934, 2, 1>>,
       <<7944, 7951, 1, -8>>, <<7960, 7965, 1, -8>>, <<7976, 7983, 1, -8>>, <<7992, 7999, 1, -8>>,
       <<8008, 8013, 1, -8>>, <<8025, 8031, 2, -8>>, <<8040, 8047, 1, -8>>, <<8072, 8079, 1, -8>>,
       <<8088, 8095, 1, -8>>, <<8104, 8111, 1, -8>>, <<8120, 8121, 1, -8>>, <<8122, 8123, 1, -74>>,
       <<8124, 8124, 1, -9>>, <<8136, 8139, 1, -86>>, <<8140, 8140, 1, -9>>, <<8152, 8153, 1, -8>>,
       <<8154, 8155, 1, -100>>, <<8168, 8169, 1, -8>>, <<8170, 8171, 1, -112>>, <<8172, 8172, 1, -7>>,
       <<8184, 8185, 1, -128>>, <<8186, 8187, 1, -126>>, <<8188, 8188, 1, -9>>, <<8486, 8486, 1, -7517>>,
       <<8490, 8490, 1, -8383>>, <<8491, 8491, 1, -8262>>, <<8498, 8498, 1, 28>>, <<8544, 8559, 1, 16>>,
       <<8579, 8579, 1, 1>>, <<9398, 9423, 1, 26>>, <<11264, 11311, 1, 48>>, <<11360, 11360, 1, 1>>,
       <<11362, 11362, 1, -10743>>, <<11363, 11363, 1, -3814>>, <<11364, 11364, 1, -10727>>, <<11367, 11371, 2, 1>>,
       <<11373, 11373, 1, -10780>>, <<11374, 11374, 1, -10749>>, <<11375, 11375, 1, -10783>>, <<11376, 11376, 1, -10782>>,
       <<11378, 11378, 1, 1>>, <<11381, 11381, 1, 1>>, <<11390, 11391, 1, -10815>>, <<11392, 11490, 2, 1>>,
       <<11499, 11501, 2, 1>>, <<11506, 11506, 1, 1>>, <<42560, 42604, 2, 1>>, <<42624, 42650, 2, 1>>,
       <<42786, 42798, 2, 1>>, <<42802, 42862, 2, 1>>, <<42873, 42875, 2, 1>>, <<42877, 42877, 1, -35332>>,
       <<42878, 42886, 2, 1>>, <<42891, 42891, 1, 1>>, <<42893, 42893, 1, -42280>>, <<42896, 42898, 2, 1>>,
       <<42902, 42920, 2, 1>>, <<42922, 42922, 1, -42308>>, <<42923, 42923, 1, -42319>>, <<42924, 42924, 1, -42315>>,
       <<42925, 42925, 1, -42305>>, <<42926, 42926, 1, -42308>>, <<42928, 42928, 1, -42258>>, <<42929, 42929, 1, -42282>>,
       <<42930, 42930, 1, -42261>>, <<42931, 42931, 1, 928>>, <<42932, 42946, 2, 1>>, <<42948, 42948, 1, -48>>,
       <<42949, 42949, 1, -42307>>, <<42950, 42950, 1, -35384>>, <<42951, 42953, 2, 1>>, <<42960, 42960, 1, 1>>,
       <<42966, 42968, 2, 1>>, <<42997, 42997, 1, 1>>, <<65313, 65338, 1, 32>>, <<66560, 66599, 1, 40>>,
       <<66736, 66771, 1, 40>>, <<66928, 66938, 1, 39>>, <<66940, 66954, 1, 39>>, <<66956, 66962, 1, 39>>,
       <<66964, 66965, 1, 39>>, <<68736, 68786, 1, 64>>, <<71840, 71871, 1, 32>>, <<93760, 93791, 1, 32>>,
       <<125184, 125217, 1, 34>> >>

\* Code points with the property Cased, as <<first, last>> ranges
CasedRanges ==
    <<
       <<65, 90>>, <<97, 122>>, <<170, 170>>, <<181, 181>>, <<186, 186>>, <<192, 214>>,
       <<216, 246>>, <<248, 442>>, <<444, 447>>, <<452, 659>>, <<661, 696>>, <<704, 705>>,
       <<736, 740>>, <<837, 837>>, <<880, 883>>, <<886, 887>>, <<890, 893>>, <<895, 895>>,
       <<902, 902>>, <<904, 906>>, <<908, 908>>, <<910, 929>>, <<931, 1013>>, <<1015, 1153>>,
       <<1162, 1327>>, <<1329, 1366>>, <<1376, 1416>>, <<4256, 4293>>, <<4295, 4295>>, <<4301, 4301>>,
       <<4304, 4346>>, <<4349, 4351>>, <<5024, 5109>>, <<5112, 5117>>, <<7296, 7304>>, <<7312, 7354>>,
       <<7357, 7359>>, <<7424, 7615>>, <<7680, 7957>>, <<7960, 7965>>, <<7968, 8005>>, <<8008, 8013>>,
       <<8016, 8023>>, <<8025, 8025>>, <<8027, 8027>>, <<8029, 8029>>, <<8031, 8061>>, <<8064, 8116>>,
       <<8118, 8124>>, <<8126, 8126>>, <<8130, 8132>>, <<8134, 8140>>, <<8144, 8147>>, <<8150, 8155>>,
       <<8160, 8172>>, <<8178, 8180>>, <<8182, 8188>>, <<8305, 8305>>, <<8319, 8319>>, <<8336, 8348>>,
       <<8450, 8450>>, <<8455, 8455>>, <<8458, 8467>>, <<8469, 8469>>, <<8473, 8477>>, <<8484, 8484>>,
       <<8486, 8486>>, <<8488, 8488>>, <<8490, 8493>>, <<8495, 8500>>, <<8505, 8505>>, <<8508, 8511>>,
       <<8517, 8521>>, <<8526, 8526>>, <<8544, 8575>>, <<8579, 8580>>, <<9398, 9449>>, <<11264, 11492>>,
       <<11499, 11502>>, <<11506, 11507>>, <<11520, 11557>>, <<11559, 11559>>, <<11565, 11565>>, <<42560, 42605>>,
       <<42624, 42653>>, <<42786, 42887>>, <<42891, 42894>>, <<42896, 42954>>, <<42960, 42961>>, <<42963, 42963>>,
       <<42965, 42969>>, <<42997, 42998>>, <<43000, 43002>>, <<43824, 43866>>, <<43868, 43880>>, <<43888, 43967>>,
       <<64256, 64262>>, <<64275, 64279>>, <<65313, 65338>>, <<65345, 65370>>, <<66560, 66639>>, <<66736, 66771>>,
       <<66776, 66811>>, <<66928, 66938>>, <<66940, 66954>>, <<66956, 66962>>, <<66964, 66965>>, <<66967, 66977>>,
       <<66979, 66993>>, <<66995, 67001>>, <<67003, 67004>>, <<67456, 67456>>, <<67459, 67461>>, <<67463, 67504>>,
       <<67506, 67514>>, <<68736, 68786>>, <<68800, 68850>>, <<71840, 71903>>, <<93760, 93823>>, <<119808, 119892>>,
       <<119894, 119964>>, <<119966, 119967>>, <<119970, 119970>>, <<119973, 119974>>, <<119977, 119980>>, <<119982, 119993>>,
       <<119995, 119995>>, <<119997, 120003>>, <<120005, 120069>>, <<120071, 120074>>, <<120077, 120084>>, <<120086, 120092>>,
       <<120094, 120121>>, <<120123, 120126>>, <<120128, 120132>>, <<120134, 120134>>, <<120138, 120144>>, <<120146, 120485>>,
       <<120488, 120512>>, <<120514, 120538>>, <<120540, 120570>>, <<120572, 120596>>, <<120598, 120628>>, <<120630, 120654>>,
       <<120656, 120686>>, <<120688, 120712>>, <<120714, 120744>>, <<120746, 120770>>, <<120772, 120779>>, <<122624, 122633>>,
       <<122635, 122654>>, <<125184, 125251>>, <<127280, 127305>>, <<127312, 127337>>, <<127344, 127369>> >>

\* Code points with the property Case_Ignorable, as <<first, last>> ranges
CaseIgnorableRanges ==
    <<
       <<39, 39>>, <<46, 46>>, <<58, 58>>, <<94, 94>>, <<96, 96>>, <<168, 168>>,
       <<173, 173>>, <<175, 175>>, <<180, 180>>, <<183, 184>>, <<688, 879>>, <<884, 885>>,
       <<890, 890>>, <<900, 901>>, <<903, 903>>, <<1155, 1161>>, <<1369, 1369>>, <<1375, 1375>>,
       <<1425, 1469>>, <<1471, 1471>>, <<1473, 1474>>, <<1476, 1477>>, <<1479, 1479>>, <<1524, 1524>>,
       <<1536, 1541>>, <<1552, 1562>>, <<1564, 1564>>, <<1600, 1600>>, <<1611, 1631>>, <<1648, 1648>>,
       <<1750, 1757>>, <<1759, 1768>>, <<1770, 1773>>, <<1807, 1807>>, <<1809, 1809>>, <<1840, 1866>>,
       <<1958, 1968>>, <<2027, 2037>>, <<2042, 2042>>, <<2045, 2045>>, <<2070, 2093>>, <<2137, 2139>>,
       <<2184, 2184>>, <<2192, 2193>>, <<2200, 2207>>, <<2249, 2306>>, <<2362, 2362>>, <<2364, 2364>>,
       <<2369, 2376>>, <<2381, 2381>>, <<2385, 2391>>, <<2402, 2403>>, <<2417, 2417>>, <<2433, 2433>>,
       <<2492, 2492>>, <<2497, 2500>>, <<2509, 2509>>, <<2530, 2531>>, <<2558, 2558>>, <<2561, 2562>>,
       <<2620, 2620>>, <<2625, 2626>>, <<2631, 2632>>, <<2635, 2637>>, <<2641, 2641>>, <<2672, 2673>>,
       <<2677, 2677>>, <<2689, 2690>>, <<2748, 2748>>, <<2753, 2757>>, <<2759, 2760>>, <<2765, 2765>>,
       <<2786, 2787>>, <<2810, 2815>>, <<2817, 2817>>, <<2876, 2876>>, <<2879, 2879>>, <<2881, 2884>>,
       <<2893, 2893>>, <<2901, 2902>>, <<2914, 2915>>, <<2946, 2946>>, <<3008, 3008>>, <<3021, 3021>>,
       <<3072, 3072>>, <<3076, 3076>>, <<3132, 3132>>, <<3134, 3136>>, <<3142, 3144>>, <<3146, 3149>>,
       <<3157, 3158>>, <<3170, 3171>>, <<3201, 3201>>, <<3260, 3260>>, <<3263, 3263>>, <<3270, 3270>>,
       <<3276, 3277>>, <<3298, 3299>>, <<3328, 3329>>, <<3387, 3388>>, <<3393, 3396>>, <<3405, 3405>>,
       <<3426, 3427>>, <<3457, 3457>>, <<3530, 3530>>, <<3538, 3540>>, <<3542, 3542>>, <<3633, 3633>>,
       <<3636, 3642>>, <<3654, 3662>>, <<3761, 3761>>, <<3764, 3772>>, <<3782, 3782>>, <<3784, 3789>>,
       <<3864, 3865>>, <<3893, 3893>>, <<3895, 3895>>, <<3897, 3897>>, <<3953, 3966>>, <<3968, 3972>>,
       <<3974, 3975>>, <<3981, 3991>>, <<3993, 4028>>, <<4038, 4038>>, <<4141, 4144>>, <<4146, 4151>>,
       <<4153, 4154>>, <<4157, 4158>>, <<4184, 4185>>, <<4190, 4192>>, <<4209, 4212>>, <<4226, 4226>>,
       <<4229, 4230>>, <<4237, 4237>>, <<4253, 4253>>, <<4348, 4348>>, <<4957, 4959>>, <<5906, 5908>>,
       <<5938, 5939>>, <<5970, 5971>>, <<6002, 6003>>, <<6068, 6069>>, <<6071, 6077>>, <<6086, 6086>>,
       <<6089, 6099>>, <<6103, 6103>>, <<6109, 6109>>, <<6155, 6159>>, <<6211, 6211>>, <<6277, 6278>>,
       <<6313, 6313>>, <<6432, 6434>>, <<6439, 6440>>, <<6450, 6450>>, <<6457, 6459>>, <<6679, 6680>>,
       <<6683, 6683>>, <<6742, 6742>>, <<6744, 6750>>, <<6752, 6752>>, <<6754, 6754>>, <<6757, 6764>>,
       <<6771, 6780>>, <<6783, 6783>>, <<6823, 6823>>, <<6832, 6862>>, <<6912, 6915>>, <<6964, 6964>>,
       <<6966, 6970>>, <<6972, 6972>>, <<6978, 6978>>, <<7019, 7027>>, <<7040, 7041>>, <<7074, 7077>>,
       <<7080, 7081>>, <<7083, 7085>>, <<7142, 7142>>, <<7144, 7145>>, <<7149, 7149>>, <<7151, 7153>>,
       <<7212, 7219>>, <<7222, 7223>>, <<7288, 7293>>, <<7376, 7378>>, <<7380, 7392>>, <<7394, 7400>>,
       <<7405, 7405>>, <<7412, 7412>>, <<7416, 7417>>, <<7468, 7530>>, <<7544, 7544>>, <<7579, 7679>>,
       <<8125, 8125>>, <<8127, 8129>>, <<8141, 8143>>, <<8157, 8159>>, <<8173, 8175>>, <<8189, 8190>>,
       <<8203, 8207>>, <<8216, 8217>>, <<8228, 8228>>, <<8231, 8231>>, <<8234, 8238>>, <<8288, 8292>>,
       <<8294, 8303>>, <<8305, 8305>>, <<8319, 8319>>, <<8336, 8348>>, <<8400, 8432>>, <<11388, 11389>>,
       <<11503, 11505>>, <<11631, 11631>>, <<11647, 11647>>, <<11744, 11775>>, <<11823, 11823>>, <<12293, 12293>>,
       <<12330, 12333>>, <<12337, 12341>>, <<12347, 12347>>, <<12441, 12446>>, <<12540, 12542>>, <<40981, 40981>>,
       <<42232, 42237>>, <<42508, 42508>>, <<42607, 42610>>, <<42612, 42621>>, <<42623, 42623>>, <<42652, 42655>>,
       <<42736, 42737>>, <<42752, 42785>>, <<42864, 42864>>, <<42888, 42890>>, <<42994, 42996>>, <<43000, 43001>>,
       <<43010, 43010>>, <<43014, 43014>>, <<43019, 43019>>, <<43045, 43046>>, <<43052, 43052>>, <<43204, 43205>>,
       <<43232, 43249>>, <<43263, 43263>>, <<43302, 43309>>, <<43335, 43345>>, <<43392, 43394>>, <<43443, 43443>>,
       <<43446, 43449>>, <<43452, 43453>>, <<43471, 43471>>, <<43493, 43494>>, <<43561, 43566>>, <<43569, 43570>>,
       <<43573, 43574>>, <<43587, 43587>>, <<43596, 43596>>, <<43632, 43632>>, <<43644, 43644>>, <<43696, 43696>>,
       <<43698, 43700>>, <<43703, 43704>>, <<43710, 43711>>, <<43713, 43713>>, <<43741, 43741>>, <<43756, 43757>>,
       <<43763, 43764>>, <<43766, 43766>>, <<43867, 43871>>, <<43881, 43883>>, <<44005, 44005>>, <<44008, 44008>>,
       <<44013, 44013>>, <<64286, 64286>>, <<64434, 64450>>, <<65024, 65039>>, <<65043, 65043>>, <<65056, 65071>>,
       <<65106, 65106>>, <<65109, 65109>>, <<65279, 65279>>, <<65287, 65287>>, <<65294, 65294>>, <<65306, 65306>>,
       <<65342, 65342>>, <<65344, 65344>>, <<65392, 65392>>, <<65438, 65439>>, <<65507, 65507>>, <<65529, 65531>>,
       <<66045, 66045>>, <<66272, 66272>>, <<66422, 66426>>, <<67456, 67461>>, <<67463, 67504>>, <<67506, 67514>>,
       <<68097, 68099>>, <<68101, 68102>>, <<68108, 68111>>, <<68152, 68154>>, <<68159, 68159>>, <<68325, 68326>>,
       <<68900, 68903>>, <<69291, 69292>>, <<69446, 69456>>, <<69506, 69509>>, <<69633, 69633>>, <<69688, 69702>>,
       <<69744, 69744>>, <<69747, 69748>>, <<69759, 69761>>, <<69811, 69814>>, <<69817, 69818>>, <<69821, 69821>>,
       <<69826, 69826>>, <<69837, 69837>>, <<69888, 69890>>, <<69927, 69931>>, <<69933, 69940>>, <<70003, 70003>>,
       <<70016, 70017>>, <<70070, 70078>>, <<70089, 70092>>, <<70095, 70095>>, <<70191, 70193>>, <<70196, 70196>>,
       <<70198, 70199>>, <<70206, 70206>>, <<70367, 70367>>, <<70371, 70378>>, <<70400, 70401>>, <<70459, 70460>>,
       <<70464, 70464>>, <<70502, 70508>>, <<70512, 70516>>, <<70712, 70719>>, <<70722, 70724>>, <<70726, 70726>>,
       <<70750, 70750>>, <<70835, 70840>>, <<70842, 70842>>, <<70847, 70848>>, <<70850, 70851>>, <<71090, 71093>>,
       <<71100, 71101>>, <<71103, 71104>>, <<71132, 71133>>, <<71219, 71226>>, <<71229, 71229>>, <<71231, 71232>>,
       <<71339, 71339>>, <<71341, 71341>>, <<71344, 71349>>, <<71351, 71351>>, <<71453, 71455>>, <<71458, 71461>>,
       <<71463, 71467>>, <<71727, 71735>>, <<71737, 71738>>, <<71995, 71996>>, <<71998, 71998>>, <<72003, 72003>>,
       <<72148, 72151>>, <<72154, 72155>>, <<72160, 72160>>, <<72193, 72202>>, <<72243, 72248>>, <<72251, 72254>>,
       <<72263, 72263>>, <<72273, 72278>>, <<72281, 72283>>, <<72330, 72342>>, <<72344, 72345>>, <<72752, 72758>>,
       <<72760, 72765>>, <<72767, 72767>>, <<72850, 72871>>, <<72874, 72880>>, <<72882, 72883>>, <<72885, 72886>>,
       <<73009, 73014>>, <<73018, 73018>>, <<73020, 73021>>, <<73023, 73029>>, <<73031, 73031>>, <<73104, 73105>>,
       <<73109, 73109>>, <<73111, 73111>>, <<73459, 73460>>, <<78896, 78904>>, <<92912, 92916>>, <<92976, 92982>>,
       <<92992, 92995>>, <<94031, 94031>>, <<94095, 94111>>, <<94176, 94177>>, <<94179, 94180>>, <<110576, 110579>>,
       <<110581, 110587>>, <<110589, 110590>>, <<113821, 113822>>, <<113824, 113827>>, <<118528, 118573>>, <<118576, 118598>>,
       <<119143, 119145>>, <<119155, 119170>>, <<119173, 119179>>, <<119210, 119213>>, <<119362, 119364>>, <<121344, 121398>>,
       <<121403, 121452>>, <<121461, 121461>>, <<121476, 121476>>, <<121499, 121503>>, <<121505, 121519>>, <<122880, 122886>>,
       <<122888, 122904>>, <<122907, 122913>>, <<122915, 122916>>, <<122918, 122922>>, <<123184, 123197>>, <<123566, 123566>>,
       <<123628, 123631>>, <<125136, 125142>>, <<125252, 125259>>, <<127995, 127999>>, <<917505, 917505>>, <<917536, 917631>>,
       <<917760, 917999>> >>

InRanges(c, ranges) ==
    \E k \in 1..Len(ranges) : ranges[k][1] <= c /\ c <= ranges[k][2]

IsCased(c) == InRanges(c, CasedRanges)
IsCaseIgnorable(c) == InRanges(c, CaseIgnorableRanges)

\* The index of the nearest code point before i (step -1) or after i (step 1)
\* that is not case-ignorable; 0 or Len(s) + 1 when there is none
RECURSIVE SkipCaseIgnorable(_, _, _)
SkipCaseIgnorable(s, j, step) ==
    IF j < 1 \/ j > Len(s) \/ ~IsCaseIgnorable(s[j]) THEN j
    ELSE SkipCaseIgnorable(s, j + step, step)

\* CPython's handle_capital_sigma: U+03A3 lowers to the final sigma U+03C2
\* after a cased letter and not before one, and to U+03C3 otherwise
LowerSigma(s, i) ==
    LET before == SkipCaseIgnorable(s, i - 1, -1)
        after == SkipCaseIgnorable(s, i + 1, 1)
    IN  IF /\ before >= 1
           /\ IsCased(s[before])
           /\ (after > Len(s) \/ ~IsCased(s[after]))
        THEN 962
        ELSE 963

\* The lowercase of one code point: U+0130 lowers to two code points; ASCII
\* is decided without the table
LowerChar(c) ==
    IF c < 128 THEN (IF c >= 65 /\ c <= 90 THEN <<c + 32>> ELSE <<c>>)
    ELSE IF c = 304 THEN <<105, 775>>
    ELSE IF \E k \in 1..Len(UpperToLower) :
               /\ UpperToLower[k][1] <= c /\ c <= UpperToLower[k][2]
               /\ (c - UpperToLower[k][1]) % UpperToLower[k][3] = 0
    THEN LET k == CHOOSE k \in 1..Len(UpperToLower) :
                     /\ UpperToLower[k][1] <= c /\ c <= UpperToLower[k][2]
                     /\ (c - UpperToLower[k][1]) % UpperToLower[k][3] = 0
         IN  <<c + UpperToLower[k][4]>>
    ELSE <<c>>

RECURSIVE LowerFrom(_, _)
LowerFrom(s, i) ==
    IF i > Len(s) THEN <<>>
    ELSE (IF s[i] = 931 THEN <<LowerSigma(s, i)>> ELSE LowerChar(s[i]))
         \o LowerFrom(s, i + 1)

\* Python str.lower
Lower(s) == LowerFrom(s, 1)

\* Python list[:n], JS Array.prototype.slice(0, n)
Take(s, n) == SubSeq(s, 1, Min(n, Len(s)))

\* The UTF-16 code units of a JS string: a code point above U+FFFF is a
\* surrogate pair
RECURSIVE Utf16(_)
Utf16(s) ==
    IF s = <<>> THEN <<>>
    ELSE (IF Head(s) > 65535
          THEN <<55296 + ((Head(s) - 65536) \div 1024),
                 56320 + ((Head(s) - 65536) % 1024)>>
          ELSE <<Head(s)>>)
         \o Utf16(Tail(s))

\* The code points of a sequence of UTF-16 code units; a surrogate with no
\* partner stands for itself
RECURSIVE FromUtf16(_)
FromUtf16(u) ==
    IF u = <<>> THEN <<>>
    ELSE IF /\ Len(u) >= 2
            /\ u[1] >= 55296 /\ u[1] <= 56319
            /\ u[2] >= 56320 /\ u[2] <= 57343
    THEN <<65536 + (u[1] - 55296) * 1024 + (u[2] - 56320)>>
         \o FromUtf16(Tail(Tail(u)))
    ELSE <<Head(u)>> \o FromUtf16(Tail(u))

\* JS String.prototype.slice(0, n): the first n code units
StringSlice(s, n) == FromUtf16(Take(Utf16(s), n))

\* Python dict.get(key, default): the default only when the key is missing
DictGet(d, key, default) == IF key \in DOMAIN d THEN d[key] ELSE default

\* ------------------------------------------------- variable scan (17-31)
\* line 23: the test a property name must pass
VarNameKept(prop) ==
    /\ StartsWith(prop, <<45, 45>>)   \* "--"
    /\ \/ Includes(prop, <<99, 111, 108, 111, 114>>)   \* "color"
       \/ Includes(prop, <<116, 104, 101, 109, 101>>)   \* "theme"
       \/ Includes(prop, <<104, 117, 101>>)   \* "hue"

\* computedStyle.getPropertyValue(prop)
getPropertyValue(style, prop) ==
    style[CHOOSE i \in 1..Len(style) : style[i].name = prop].value

\* line 24 with the trim left out
CssVarValue_NoTrim(style, prop) == getPropertyValue(style, prop)

\* line 24: the value recorded for a kept property
CssVarValue(style, prop) == Trim(getPropertyValue(style, prop))

\* lines 21-26: the loop over the computed style, from index i on
RECURSIVE CssVarsLoop(_, _, _)
CssVarsLoop(style, i, jsVars) ==
    IF i > Len(style) THEN jsVars
    ELSE LET prop == style[i].name IN
         IF VarNameKept(prop)
         THEN CssVarsLoop(style, i + 1, Put(jsVars, prop, CssVarValue(style, prop)))
         ELSE CssVarsLoop(style, i + 1, jsVars)

\* lines 17-29: the first page.evaluate
css_vars(style) == CssVarsLoop(style, 1, EmptyMap)

\* --------------------------------------------------- rule scan (34-71)
\* What the identifier `str` can resolve to in the page's script context: the
\* standard global functions.  `str` is Python's name, not one of them.
JsGlobalFunctions ==
    {"String", "Number", "Boolean", "parseInt", "parseFloat", "isNaN",
     "isFinite", "encodeURI", "decodeURI", "getComputedStyle"}

\* lines 47-52: the catch block of one stylesheet.  Evaluating str(e) with no
\* `str` in scope throws a ReferenceError out of the catch block, and so out
\* of the evaluated function.
SheetCatch(sheets, sheet) ==
    IF "str" \in JsGlobalFunctions
    THEN [thrown |-> FALSE,
          value |-> Append(sheets, [href |-> sheet.href, error |-> "SecurityError"])]
    ELSE [thrown |-> TRUE, value |-> sheets]

\* lines 37-53: the loop over document.styleSheets, from index i on.  Reading
\* sheet.cssRules of an unreadable sheet throws into the catch block.
RECURSIVE SheetsLoop(_, _, _)
SheetsLoop(docSheets, i, sheets) ==
    IF i > Len(docSheets) THEN [thrown |-> FALSE, value |-> sheets]
    ELSE LET sheet == docSheets[i] IN
         IF sheet.readable
         THEN SheetsLoop(docSheets, i + 1,
                         Append(sheets, [href |-> sheet.href, rules |-> sheet.cssRules]))
         ELSE LET c == SheetCatch(sheets, sheet) IN
              IF c.thrown THEN c ELSE SheetsLoop(docSheets, i + 1, c.value)

\* lines 34-56: the second page.evaluate
stylesheets(docSheets) == SheetsLoop(docSheets, 1, <<>>)

\* line 60
color_keywords ==
    << <<99, 111, 108, 111, 114>>,   \* "color"
       <<98, 97, 99, 107, 103, 114, 111, 117, 110, 100>>,   \* "background"
       <<98, 111, 114, 100, 101, 114>>,   \* "border"
       <<114, 103, 98>>,   \* "rgb"
       <<104, 115, 108>>,   \* "hsl"
       <<104, 115, 118>>,   \* "hsv"
       <<35>>,   \* "#"
       <<118, 97, 114, 40, 45, 45>> >>   \* "var(--"

\* line 65 with the lower() left out
RuleKept_NoLower(rule) ==
    \E k \in 1..Len(color_keywords) : Includes(rule, color_keywords[k])

\* line 65: any(keyword in rule.lower() for keyword in color_keywords)
RuleKept(rule) ==
    \E k \in 1..Len(color_keywords) : Includes(Lower(rule), color_keywords[k])

\* lines 66-69: the entry appended for a kept rule
RuleEntry(sheet, rule) ==
    [source |-> DictGet(sheet, "href", "inline"), rule |-> rule]

\* lines 64-69: the loop over one sheet's rules, from index j on
RECURSIVE RulesLoop(_, _, _)
RulesLoop(sheet, j, acc) ==
    IF j > Len(sheet.rules) THEN acc
    ELSE LET rule == sheet.rules[j] IN
         RulesLoop(sheet, j + 1,
                   IF RuleKept(rule) THEN Append(acc, RuleEntry(sheet, rule)) ELSE acc)

\* lines 62-69: the loop over the evaluated sheets, from index i on
RECURSIVE FilterLoop(_, _, _)
FilterLoop(sheets, i, acc) ==
    IF i > Len(sheets) THEN acc
    ELSE FilterLoop(sheets, i + 1,
                    IF "rules" \in DOMAIN sheets[i]
                    THEN RulesLoop(sheets[i], 1, acc)
                    ELSE acc)

\* lines 59-69
color_rules(sheets) == FilterLoop(sheets, 1, <<>>)

\* ------------------------------------------- element sample scan (74-102)
\* line 77
selectors ==
    <<"button", "a", ".btn", "[class*=\"color\"]", "[class*=\"theme\"]", "body", "html">>

\* line 82: slice(0, 5)
SampleLimit == 5
\* line 91: slice(0, 50)
TextLimit == 50

\* The i-th element a selector matches, in document order
ElementOf(sel, i) ==
    [tagName |-> CASE sel = "button" -> "BUTTON"
                   [] sel = "a" -> "A"
                   [] sel = "body" -> "BODY"
                   [] sel = "html" -> "HTML"
                   [] OTHER -> "DIV",
     className |-> CASE sel = ".btn" -> "btn"
                     [] sel = "[class*=\"color\"]" -> "text-color"
                     [] sel = "[class*=\"theme\"]" -> "theme-dark"
                     [] OTHER -> "",
     order |-> i,
     textContent |-> <<111, 107>>]   \* "ok"

\* document.querySelectorAll(selector): a NodeList.  Every selector of the
\* list is valid syntax, so the call itself does not throw.
querySelectorAll(counts, sel) == [i \in 1..counts[sel] |-> ElementOf(sel, i)]

\* The members of a NodeList.  It is not an Array: it has no slice.
NodeListMembers == {"length", "item", "entries", "forEach", "keys", "values"}

\* line 82: elems.slice(0, 5).  Calling a member the NodeList does not have
\* throws a TypeError.
SliceFirst(elems) ==
    IF "slice" \in NodeListMembers
    THEN [thrown |-> FALSE, value |-> Take(elems, SampleLimit)]
    ELSE [thrown |-> TRUE, value |-> <<>>]

\* lines 83-92: the entry pushed for one element
ElementEntry(sel, el) ==
    [selector |-> sel,
     tagName |-> el.tagName,
     className |-> el.className,
     color |-> "rgb(0, 0, 0)",
     backgroundColor |-> "rgba(0, 0, 0, 0)",
     borderColor |-> "rgb(0, 0, 0)",
     text |-> StringSlice(el.textContent, TextLimit)]

\* lines 94-96 with the error thrown on instead of ignored
SelectorCatch_Rethrow(scan, sel) ==
    [scan EXCEPT !.threw = @ \cup {sel}, !.thrown = TRUE]

\* lines 94-96: the catch block of one selector ignores the error
SelectorCatch(scan, sel) ==
    [scan EXCEPT !.threw = @ \cup {sel}]

\* lines 80-96: the body of the loop for one selector
SelectorStep(counts, scan, sel) ==
    LET elems == querySelectorAll(counts, sel)
        firsts == SliceFirst(elems)
        seen == [scan EXCEPT !.visited = Append(@, sel)]
    IN  IF firsts.thrown
        THEN SelectorCatch(seen, sel)
        ELSE [seen EXCEPT !.elements =
                 @ \o [i \in 1..Len(firsts.value) |-> ElementEntry(sel, firsts.value[i])]]

\* lines 79-97: the loop over the selectors, from index i on.  scan.elements
\* is the script's `elements`; visited and threw record what the loop did.
RECURSIVE SelectorsLoop(_, _, _)
SelectorsLoop(counts, i, scan) ==
    IF i > Len(selectors) \/ scan.thrown THEN scan
    ELSE SelectorsLoop(counts, i + 1, SelectorStep(counts, scan, selectors[i]))

\* lines 74-100: the third page.evaluate
element_colors(counts) ==
    SelectorsLoop(counts, 1,
                  [elements |-> <<>>, visited |-> <<>>, threw |-> {}, thrown |-> FALSE])

\* ------------------------------------------------------------ the pages
PropNames ==
    { <<45, 45, 104, 117, 101>>,   \* "--hue"
      <<45, 45, 98, 103, 45, 99, 111, 108, 111, 114>>,   \* "--bg-color"
      <<45, 45, 84, 104, 101, 109, 101>>,   \* "--Theme"
      <<45, 45, 103, 97, 112>>,   \* "--gap"
      <<99, 111, 108, 111, 114>> }   \* "color"

PropValues ==
    { <<32, 114, 101, 100, 32>>,   \* " red "
      <<35, 102, 102, 102>>,   \* "#fff"
      <<9, 32>>,   \* "\t "
      <<160, 114, 101, 100, 160>> }   \* "\u00a0red\u00a0"

Props == [name : PropNames, value : PropValues]

\* Computed styles: up to n properties, each name enumerated once
Styles(n) ==
    UNION { { s \in [1..k -> Props] :
                \A i, j \in 1..k : s[i].name = s[j].name => i = j } : k \in 0..n }

RuleTexts ==
    { <<97, 123, 99, 111, 108, 111, 114, 58, 114, 101, 100, 125>>,   \* "a{color:red}"
      <<80, 123, 66, 65, 67, 8490, 71, 82, 79, 85, 78, 68, 58, 48, 125>>,   \* "P{BAC\u212aGROUND:0}", U+212A the Kelvin sign
      <<112, 123, 116, 111, 112, 58, 48, 125>> }   \* "p{top:0}"

SheetUrl == "https://cdn.example/site.css"

\* A stylesheet with at most `budget` rules.  A sheet with no URL is an inline
\* <style>, which is same-origin and readable; only a linked sheet can refuse
\* its rule list.
SheetsWithin(budget) ==
    { [href |-> h, readable |-> TRUE, cssRules |-> r] :
        h \in {None, SheetUrl}, r \in UNION { [1..k -> RuleTexts] : k \in 0..budget } }
    \cup { [href |-> SheetUrl, readable |-> FALSE, cssRules |-> <<>>] }

\* Documents: up to n stylesheets holding up to `budget` rules together
RECURSIVE SheetSeqs(_, _)
SheetSeqs(n, budget) ==
    IF n = 0 THEN { <<>> }
    ELSE { <<>> } \cup
         UNION { { <<sh>> \o rest : rest \in SheetSeqs(n - 1, budget - Len(sh.cssRules)) } :
                   sh \in SheetsWithin(budget) }

\* Match counts: one <html>, one <body>, any number of the rest
MatchCounts(n) ==
    { [sel \in {selectors[i] : i \in 1..Len(selectors)} |->
          IF sel \in {"body", "html"} THEN 1 ELSE f[sel]] :
        f \in [{selectors[i] : i \in 1..Len(selectors)} \ {"body", "html"} -> 0..n] }

BaseStyle ==
    << [name |-> <<45, 45, 104, 117, 101>>, value |-> <<32, 114, 101, 100, 32>>],   \* "--hue" " red "
       [name |-> <<45, 45, 103, 97, 112>>, value |-> <<35, 102, 102, 102>>] >>   \* "--gap" "#fff"

\* a kept property whose trimmed value is not ASCII
ArrowStyle ==
    << [name |-> <<45, 45, 98, 114, 97, 110, 100, 45, 99, 111, 108, 111, 114>>,   \* "--brand-color"
        value |-> <<32, 8594, 32>>] >>   \* " \u2192 "

InlineSheet ==
    [href |-> None, readable |-> TRUE,
     cssRules |-> << <<112, 123, 116, 111, 112, 58, 48, 125>>,   \* "p{top:0}"
                     <<97, 123, 99, 111, 108, 111, 114, 58, 114, 101, 100, 125>> >>]   \* "a{color:red}"

LinkedSheet ==
    [href |-> SheetUrl, readable |-> TRUE,
     cssRules |-> << <<97, 123, 99, 111, 108, 111, 114, 58, 114, 101, 100, 125>> >>]   \* "a{color:red}"

BlockedSheet == [href |-> SheetUrl, readable |-> FALSE, cssRules |-> <<>>]

BaseSheets == <<LinkedSheet, InlineSheet>>

BaseCounts ==
    [sel \in {selectors[i] : i \in 1..Len(selectors)} |->
        CASE sel = "a" -> MaxMatches
          [] sel = "button" -> 2
          [] sel \in {"body", "html"} -> 1
          [] OTHER -> 0]

BareCounts ==
    [sel \in {selectors[i] : i \in 1..Len(selectors)} |->
        IF sel \in {"body", "html"} THEN 1 ELSE 0]

\* ------------------------------------------------------ main (106-156)
Ev(op, result) == [op |-> op, result |-> result]

NoFile == [exists |-> FALSE, data |-> <<>>]

ShotPath == "animate_ui_screenshot.png"
ErrorShotPath == "animate_ui_error.png"

\* line 146: str(e) for an error Playwright raises on a call of main(): the
\* driver's text for a failed navigation and for an expired timeout, which
\* are ASCII.
PlaywrightMessages ==
    { <<110, 101, 116, 58, 58, 69, 82, 82, 95, 78, 65, 77, 69, 95, 78, 79, 84, 95, 82, 69, 83, 79, 76, 86, 69, 68>>,   \* "net::ERR_NAME_NOT_RESOLVED"
      <<84, 105, 109, 101, 111, 117, 116, 32, 51, 48, 48, 48, 48, 109, 115, 32, 101, 120, 99, 101, 101, 100, 101, 100, 46>> }   \* "Timeout 30000ms exceeded."

\* line 146: str(e) for the ReferenceError of line 50, as page.evaluate raises it
ReferenceErrorMessage ==
    <<115, 116, 114, 32, 105, 115, 32, 110, 111, 116, 32, 100, 101, 102, 105,
      110, 101, 100>>   \* "str is not defined"

\* line 146: str(e) for a TypeError leaving the script of lines 74-100
TypeErrorMessage ==
    <<101, 108, 101, 109, 115, 46, 115, 108, 105, 99, 101, 32, 105, 115, 32,
      110, 111, 116, 32, 97, 32, 102, 117, 110, 99, 116, 105, 111, 110>>   \* "elems.slice is not a function"

\* line 146: str(e) for the OSError of open() (line 119)
OpenErrorMessage ==
    <<80, 101, 114, 109, 105, 115, 115, 105, 111, 110, 32, 100, 101, 110, 105,
      101, 100>>   \* "Permission denied"

\* line 146: str(e) for the OSError of json.dump's write (line 120)
DumpErrorMessage ==
    <<78, 111, 32, 115, 112, 97, 99, 101, 32, 108, 101, 102, 116, 32, 111, 110,
      32, 100, 101, 118, 105, 99, 101>>   \* "No space left on device"

\* line 146: str(e) for the UnicodeEncodeError of a summary print; it names
\* the character by its escape, in ASCII
CodecErrorMessage ==
    <<99, 111, 100, 101, 99, 32, 99, 97, 110, 39, 116, 32, 101, 110, 99, 111,
      100, 101, 32, 99, 104, 97, 114, 97, 99, 116, 101, 114>>   \* "codec can't encode character"

\* line 147: f"Error: {e}"
ErrorLine(message) == <<69, 114, 114, 111, 114, 58, 32>> \o message

\* lines 107-108: sync_playwright() and p.chromium.launch(headless=True).
\* A failure here leaves main() before there is a browser.
Launch ==
    /\ pc = "start"
    /\ \E ok \in BOOLEAN :
         /\ trace' = Append(trace, Ev("launch", IF ok THEN "ok" ELSE "error"))
         /\ pc' = IF ok THEN "launched" ELSE "raised"
    /\ UNCHANGED <<inputVars, colors_info, scanLog, jsonFile, shots, exc, launcherVars>>

\* line 109: browser.new_page(), before the try statement: its exception
\* leaves main() past the finally clause of line 155.
NewPage ==
    /\ pc = "launched"
    /\ \E ok \in BOOLEAN :
         /\ trace' = Append(trace, Ev("new_page", IF ok THEN "ok" ELSE "error"))
         /\ pc' = IF ok THEN "paged" ELSE "raised"
    /\ UNCHANGED <<inputVars, colors_info, scanLog, jsonFile, shots, exc, launcherVars>>

\* line 113 with a failed navigation not raised
Goto_NoRaise ==
    /\ pc = "paged"
    /\ \E ok \in BOOLEAN :
         /\ trace' = Append(trace, Ev("goto", IF ok THEN "ok" ELSE "error"))
         /\ pc' = "navigated"
    /\ UNCHANGED <<inputVars, colors_info, scanLog, jsonFile, shots, exc, launcherVars>>

\* lines 112-113: page.goto
Goto ==
    /\ pc = "paged"
    /\ \/ /\ trace' = Append(trace, Ev("goto", "ok"))
          /\ pc' = "navigated"
          /\ UNCHANGED exc
       \/ \E message \in PlaywrightMessages :
            /\ trace' = Append(trace, Ev("goto", "error"))
            /\ pc' = "except"
            /\ exc' = message
    /\ UNCHANGED <<inputVars, colors_info, scanLog, jsonFile, shots, launcherVars>>

\* lines 14-31: the variable scan.  The evaluation itself may fail (the page
\* crashed, the context was destroyed).
EvaluateCssVars ==
    /\ pc = "navigated"
    /\ \/ /\ trace' = Append(trace, Ev("evaluate_css_vars", "ok"))
          /\ colors_info' = Put(EmptyMap, "css_variables", css_vars(rootStyle))
          /\ pc' = "vars_done"
          /\ UNCHANGED exc
       \/ \E message \in PlaywrightMessages :
            /\ trace' = Append(trace, Ev("evaluate_css_vars", "error"))
            /\ colors_info' = EmptyMap
            /\ pc' = "except"
            /\ exc' = message
    /\ UNCHANGED <<inputVars, scanLog, jsonFile, shots, launcherVars>>

\* lines 34-71: the rule scan.  An exception thrown by the evaluated script
\* is raised by page.evaluate.
EvaluateStylesheets ==
    /\ pc = "vars_done"
    /\ \/ \E message \in PlaywrightMessages :
            /\ trace' = Append(trace, Ev("evaluate_stylesheets", "error"))
            /\ pc' = "except"
            /\ exc' = message
            /\ UNCHANGED colors_info
       \/ LET r == stylesheets(styleSheets) IN
          IF r.thrown
          THEN /\ trace' = Append(trace, Ev("evaluate_stylesheets", "js_error"))
               /\ pc' = "except"
               /\ exc' = ReferenceErrorMessage
               /\ UNCHANGED colors_info
          ELSE /\ trace' = Append(trace, Ev("evaluate_stylesheets", "ok"))
               /\ colors_info' = Put(colors_info, "color_rules", color_rules(r.value))
               /\ pc' = "rules_done"
               /\ UNCHANGED exc
    /\ UNCHANGED <<inputVars, scanLog, jsonFile, shots, launcherVars>>

\* lines 74-104: the element sample scan, and the return
EvaluateElementColors ==
    /\ pc = "rules_done"
    /\ \/ \E message \in PlaywrightMessages :
            /\ trace' = Append(trace, Ev("evaluate_element_colors", "error"))
            /\ pc' = "except"
            /\ exc' = message
            /\ UNCHANGED <<colors_info, scanLog>>
       \/ LET scan == element_colors(matchCount) IN
          IF scan.thrown
          THEN /\ trace' = Append(trace, Ev("evaluate_element_colors", "js_error"))
               /\ pc' = "except"
               /\ exc' = TypeErrorMessage
               /\ scanLog' = scan
               /\ UNCHANGED colors_info
          ELSE /\ trace' = Append(trace, Ev("evaluate_element_colors", "ok"))
               /\ colors_info' = Put(colors_info, "element_colors", scan.elements)
               /\ scanLog' = scan
               /\ pc' = "extracted"
               /\ UNCHANGED exc
    /\ UNCHANGED <<inputVars, jsonFile, shots, launcherVars>>

\* lines 119-120: open(..., 'w') creates or truncates the file, json.dump
\* fills it (in ASCII, ensure_ascii being the default); either may fail.
WriteJson ==
    /\ pc = "extracted"
    /\ \/ /\ trace' = Append(trace, Ev("open_json", "error"))
          /\ pc' = "except"
          /\ exc' = OpenErrorMessage
          /\ UNCHANGED jsonFile
       \/ /\ trace' = trace \o <<Ev("open_json", "ok"), Ev("json_dump", "error")>>
          /\ jsonFile' = [exists |-> TRUE, data |-> <<>>]
          /\ pc' = "except"
          /\ exc' = DumpErrorMessage
       \/ /\ trace' = trace \o <<Ev("open_json", "ok"), Ev("json_dump", "ok")>>
          /\ jsonFile' = [exists |-> TRUE, data |-> <<colors_info>>]
          /\ pc' = "json_written"
          /\ UNCHANGED exc
    /\ UNCHANGED <<inputVars, colors_info, scanLog, shots, launcherVars>>

\* line 136: [:10]
PrintedRules == 10

\* The code points above ASCII that Python's cp1252 codec encodes, besides
\* U+00A0-U+00FF
Cp1252Extra ==
    {338, 339, 352, 353, 376, 381, 382, 402, 710, 732, 8211, 8212, 8216, 8217,
     8218, 8220, 8221, 8222, 8224, 8225, 8226, 8230, 8240, 8249, 8250, 8364, 8482}

\* Whether sys.stdout's codec (errors='strict') encodes a code point
Encodable(encoding, c) ==
    CASE encoding = "utf-8" -> c < 55296 \/ c > 57343
      [] encoding = "ascii" -> c < 128
      [] encoding = "cp1252" -> c < 128 \/ (c >= 160 /\ c <= 255) \/ c \in Cp1252Extra

\* print(text) raises UnicodeEncodeError unless every code point is encodable
Printable(encoding, text) ==
    \A i \in 1..Len(text) : Encodable(encoding, text[i])

\* lines 123-140: whether every print of the summary goes through.  The fixed
\* texts and the counts are ASCII; the variables (lines 131-132) and the first
\* ten rules (lines 136-137) are the page's text.
SummaryPrintable(encoding, info) ==
    /\ \A name \in DOMAIN info.css_variables :
         /\ Printable(encoding, name)
         /\ Printable(encoding, info.css_variables[name])
    /\ \A k \in 1..Min(PrintedRules, Len(info.color_rules)) :
         Printable(encoding, info.color_rules[k].rule)

\* lines 123-140: the summary.  A print that cannot encode its text raises
\* inside the try statement, after the JSON file was written.
PrintSummary ==
    /\ pc = "json_written"
    /\ IF SummaryPrintable(stdout_encoding, colors_info)
       THEN /\ trace' = Append(trace, Ev("print_summary", "ok"))
            /\ pc' = "printed"
            /\ UNCHANGED exc
       ELSE /\ trace' = Append(trace, Ev("print_summary", "error"))
            /\ pc' = "except"
            /\ exc' = CodecErrorMessage
    /\ UNCHANGED <<inputVars, colors_info, scanLog, jsonFile, shots, launcherVars>>

\* lines 143-144: the screenshot of the success path
Screenshot ==
    /\ pc = "printed"
    /\ \/ /\ trace' = Append(trace, Ev("screenshot", "ok"))
          /\ shots' = shots \cup {ShotPath}
          /\ pc' = "finally"
          /\ UNCHANGED exc
       \/ \E message \in PlaywrightMessages :
            /\ trace' = Append(trace, Ev("screenshot", "error"))
            /\ pc' = "except"
            /\ exc' = message
            /\ UNCHANGED shots
    /\ UNCHANGED <<inputVars, colors_info, scanLog, jsonFile, launcherVars>>

\* lines 146-153 with the inner except clause missing: a failed fallback
\* screenshot leaves main(), through the finally clause
ErrorScreenshot_Unguarded ==
    /\ pc = "except"
    /\ IF Printable(stdout_encoding, ErrorLine(exc))
       THEN \E ok \in BOOLEAN :
              /\ trace' = Append(trace, Ev("error_screenshot", IF ok THEN "ok" ELSE "error"))
              /\ shots' = IF ok THEN shots \cup {ErrorShotPath} ELSE shots
              /\ pc' = IF ok THEN "finally" ELSE "unwinding"
       ELSE /\ pc' = "unwinding"
            /\ UNCHANGED <<trace, shots>>
    /\ UNCHANGED <<inputVars, colors_info, scanLog, jsonFile, exc, launcherVars>>

\* lines 146-153: the handler.  The print of line 147 stands before the inner
\* try statement: were stdout unable to encode the message, its
\* UnicodeEncodeError would leave the handler with no fallback screenshot
\* attempted and leave main() through the finally clause.  Every message the
\* handler receives here is ASCII, which each encoding prints.  The fallback
\* screenshot is then attempted and its own failure is swallowed.
ErrorScreenshot ==
    /\ pc = "except"
    /\ IF Printable(stdout_encoding, ErrorLine(exc))
       THEN \E ok \in BOOLEAN :
              /\ trace' = Append(trace, Ev("error_screenshot", IF ok THEN "ok" ELSE "error"))
              /\ shots' = IF ok THEN shots \cup {ErrorShotPath} ELSE shots
              /\ pc' = "finally"
       ELSE /\ pc' = "unwinding"
            /\ UNCHANGED <<trace, shots>>
    /\ UNCHANGED <<inputVars, colors_info, scanLog, jsonFile, exc, launcherVars>>

\* lines 155-156: browser.close(), then the end of the with block and of
\* main(), or the exception of the handler going on.  close() itself
\* tolerates a browser that is already gone.
Close ==
    /\ pc \in {"finally", "unwinding"}
    /\ trace' = Append(trace, Ev("close", "ok"))
    /\ pc' = IF pc = "finally" THEN "done" ELSE "raised"
    /\ UNCHANGED <<inputVars, colors_info, scanLog, jsonFile, shots, exc, launcherVars>>

\* lines 10-104: the three scans, in the order the function makes them
extract_colors_from_page ==
    \/ EvaluateCssVars
    \/ EvaluateStylesheets
    \/ EvaluateElementColors

main ==
    \/ Launch
    \/ NewPage
    \/ Goto
    \/ extract_colors_from_page
    \/ WriteJson
    \/ PrintSummary
    \/ Screenshot
    \/ ErrorScreenshot
    \/ Close

\* ------------------------------------------- launcher script (167-200)
\* line 169: the value backup_path starts with
BackupPath == "~/.claude/settings.json.bak"

\* lines 178-184, as json.dump writes it
new_config == "{env: {HAIKU: glm-4.5-air, SONNET: glm-4.6, OPUS: glm-4.6}}"

\* What the two files may hold before the script runs
Contents == {"{}", "{theme: dark}", "{model: opus}", new_config}
FileStates == { <<>> } \cup { <<c>> : c \in Contents }

\* lines 172-175 with a backup that is already there kept
BackupConfig_KeepStale ==
    /\ lpc = "start"
    /\ IF cfg # <<>>
       THEN /\ bak' = IF bak = <<>> THEN cfg ELSE bak
            /\ UNCHANGED backup_path
       ELSE /\ backup_path' = None
            /\ UNCHANGED bak
    /\ lpc' = "write"
    /\ UNCHANGED <<mainVars, inputVars, dirExists, cfg, environ, origCfg, origBak>>

\* lines 172-175: shutil.copy2 replaces whatever the backup path held
BackupConfig ==
    /\ lpc = "start"
    /\ IF cfg # <<>>
       THEN /\ bak' = cfg
            /\ UNCHANGED backup_path
       ELSE /\ backup_path' = None
            /\ UNCHANGED bak
    /\ lpc' = "write"
    /\ UNCHANGED <<mainVars, inputVars, dirExists, cfg, environ, origCfg, origBak>>

\* lines 185-187
WriteConfig ==
    /\ lpc = "write"
    /\ dirExists' = TRUE
    /\ cfg' = <<new_config>>
    /\ lpc' = "env"
    /\ UNCHANGED <<mainVars, inputVars, bak, backup_path, environ, origCfg, origBak>>

\* lines 190-191
SetEnviron ==
    /\ lpc = "env"
    /\ environ' = environ \cup {"ANTHROPIC_AUTH_TOKEN", "ANTHROPIC_BASE_URL"}
    /\ lpc' = "run"
    /\ UNCHANGED <<mainVars, inputVars, dirExists, cfg, bak, backup_path, origCfg, origBak>>

\* line 194: subprocess.run starts the command and waits for it
RunCommand ==
    /\ lpc = "run"
    /\ lpc' = "running"
    /\ UNCHANGED <<mainVars, inputVars, dirExists, cfg, bak, backup_path, environ,
                   origCfg, origBak>>

\* line 194: the command returns; its exit status is not looked at.  The
\* command is taken to leave the two files alone.
CommandReturns ==
    /\ lpc = "running"
    /\ lpc' = "restore"
    /\ UNCHANGED <<mainVars, inputVars, dirExists, cfg, bak, backup_path, environ,
                   origCfg, origBak>>

\* lines 197-200: shutil.move renames the backup over the config
RestoreConfig ==
    /\ lpc = "restore"
    /\ IF backup_path # None /\ bak # <<>>
       THEN /\ cfg' = bak
            /\ bak' = <<>>
       ELSE IF backup_path = None
       THEN /\ cfg' = <<>>
            /\ UNCHANGED bak
       ELSE UNCHANGED <<cfg, bak>>
    /\ lpc' = "done"
    /\ UNCHANGED <<mainVars, inputVars, dirExists, backup_path, environ, origCfg, origBak>>

launcher ==
    \/ BackupConfig
    \/ WriteConfig
    \/ SetEnviron
    \/ RunCommand
    \/ CommandReturns
    \/ RestoreConfig

\* ------------------------------------------------------ specifications
InitMain ==
    /\ pc = "start"
    /\ exc = <<>>
    /\ trace = <<>>
    /\ colors_info = EmptyMap
    /\ scanLog = [elements |-> <<>>, visited |-> <<>>, threw |-> {}, thrown |-> FALSE]
    /\ jsonFile = NoFile
    /\ shots = {}

InitLauncher ==
    /\ lpc = "start"
    /\ backup_path = BackupPath
    /\ environ = {}
    /\ origCfg = cfg
    /\ origBak = bak

NoConfigDir ==
    /\ dirExists = FALSE
    /\ cfg = <<>>
    /\ bak = <<>>

\* main() on a handful of pages
Init ==
    /\ InitMain
    /\ rootStyle \in {<<>>, BaseStyle, ArrowStyle}
    /\ stdout_encoding \in {"utf-8", "ascii", "cp1252"}
    /\ styleSheets \in {<<>>, BaseSheets, <<InlineSheet, BlockedSheet, LinkedSheet>>}
    /\ matchCount \in {BareCounts, BaseCounts}
    /\ NoConfigDir
    /\ InitLauncher

Next == main

Spec == Init /\ [][Next]_vars

\* main() as it calls extract_colors_from_page(page) at line 116
InitExtract ==
    /\ pc = "navigated"
    /\ exc = <<>>
    /\ trace = <<Ev("launch", "ok"), Ev("new_page", "ok"), Ev("goto", "ok")>>
    /\ colors_info = EmptyMap
    /\ scanLog = [elements |-> <<>>, visited |-> <<>>, threw |-> {}, thrown |-> FALSE]
    /\ jsonFile = NoFile
    /\ shots = {}

NextExtract == extract_colors_from_page

\* extract_colors_from_page on every computed style within the bound
InitVars ==
    /\ stdout_encoding = "utf-8"
    /\ InitExtract
    /\ rootStyle \in Styles(MaxProps)
    /\ styleSheets = BaseSheets
    /\ matchCount = BaseCounts
    /\ NoConfigDir
    /\ InitLauncher

SpecVars == InitVars /\ [][NextExtract]_vars

\* extract_colors_from_page on every document within the bounds
InitRules ==
    /\ stdout_encoding = "utf-8"
    /\ InitExtract
    /\ rootStyle = BaseStyle
    /\ styleSheets \in SheetSeqs(MaxSheets, MaxRules)
    /\ matchCount = BaseCounts
    /\ NoConfigDir
    /\ InitLauncher

SpecRules == InitRules /\ [][NextExtract]_vars

\* extract_colors_from_page on every combination of match counts within the bound
InitElems ==
    /\ stdout_encoding = "utf-8"
    /\ InitExtract
    /\ rootStyle = BaseStyle
    /\ styleSheets = BaseSheets
    /\ matchCount \in MatchCounts(MaxMatches)
    /\ NoConfigDir
    /\ InitLauncher

SpecElems == InitElems /\ [][NextExtract]_vars

\* the launcher script on every state of the two files
InitFiles ==
    /\ stdout_encoding = "utf-8"
    /\ InitMain
    /\ rootStyle = BaseStyle
    /\ styleSheets = BaseSheets
    /\ matchCount = BaseCounts
    /\ \/ NoConfigDir
       \/ /\ dirExists = TRUE
          /\ cfg \in FileStates
          /\ bak \in FileStates
    /\ InitLauncher

NextLauncher == launcher

SpecLauncher == InitFiles /\ [][NextLauncher]_vars

\* ------------------------------------------------------------ properties
Happened(op, result) == \E i \in 1..Len(trace) : trace[i] = Ev(op, result)
Called(op) == \E i \in 1..Len(trace) : trace[i].op = op
Calls(op) == Cardinality({i \in 1..Len(trace) : trace[i].op = op})
Finished == pc \in {"done", "raised"}

\* The place of each call in the sequence the specification gives
StepRank ==
    [launch |-> 1, new_page |-> 2, goto |-> 3, evaluate_css_vars |-> 4,
     evaluate_stylesheets |-> 5, evaluate_element_colors |-> 6, open_json |-> 7,
     json_dump |-> 8, print_summary |-> 9, screenshot |-> 10,
     error_screenshot |-> 11, close |-> 12]

ExtractionCalls == {"evaluate_css_vars", "evaluate_stylesheets", "evaluate_element_colors"}

\* C1: if page.goto fails, the JSON file is never opened or written, the
\* fallback screenshot is attempted once the handler has run, and main() ends
\* only by returning, with no exception escaping it.
C1_NavigationFailure ==
    Happened("goto", "error") =>
        /\ ~Called("open_json") /\ ~Called("json_dump")
        /\ jsonFile = NoFile
        /\ ShotPath \notin shots
        /\ pc \in {"except", "finally", "done"}
        /\ pc \in {"finally", "done"} => Called("error_screenshot")

\* C1 witness: navigation failed, the fallback screenshot failed too, and
\* main() has returned.
C1_Witness ==
    /\ pc = "done"
    /\ Happened("goto", "error")
    /\ Happened("error_screenshot", "error")

\* C2: on every exit path after the browser was launched, browser.close() has
\* run exactly once when main() ends, on exactly one page and with no more
\* than one navigation.
C2_CloseOnEveryExit ==
    (Finished /\ Happened("launch", "ok")) =>
        /\ Calls("close") = 1
        /\ Calls("new_page") = 1
        /\ Calls("goto") <= 1

\* C9: every step happens at most once and only in the order navigate,
\* extract, persist, screenshot, close; the JSON file is opened only after
\* navigation and extraction succeeded; the success screenshot is taken only
\* after the JSON write completed; a failed navigation or extraction is
\* followed by the fallback screenshot and the close and by nothing else.
C9_StepOrder ==
    /\ \A i, j \in 1..Len(trace) :
         i < j => StepRank[trace[i].op] < StepRank[trace[j].op]
    /\ \A i \in 1..Len(trace) :
         /\ trace[i].op = "open_json" =>
              \A op \in {"goto"} \cup ExtractionCalls :
                 \E j \in 1..(i - 1) : trace[j] = Ev(op, "ok")
         /\ trace[i].op = "screenshot" =>
              /\ \E j \in 1..(i - 1) : trace[j] = Ev("json_dump", "ok")
              /\ jsonFile.data = <<colors_info>>
         /\ (trace[i].op \in {"goto"} \cup ExtractionCalls /\ trace[i].result # "ok") =>
              /\ jsonFile = NoFile
              /\ ShotPath \notin shots
              /\ Len(trace) <= i + 2
              /\ Len(trace) > i => trace[i + 1].op = "error_screenshot"
              /\ Len(trace) > i + 1 => trace[i + 2].op = "close"
              /\ pc = "done" => Len(trace) = i + 2

\* C9 witness: a run in which every step succeeded
C9_Witness ==
    /\ pc = "done"
    /\ Happened("screenshot", "ok")
    /\ jsonFile.data = <<colors_info>>
    /\ Len(trace) = 11

\* All rules of the document with their sheet's URL, sheet after sheet
RECURSIVE DocumentRules(_)
DocumentRules(docSheets) ==
    IF docSheets = <<>> THEN <<>>
    ELSE [k \in 1..Len(Head(docSheets).cssRules) |->
            [href |-> Head(docSheets).href, text |-> Head(docSheets).cssRules[k]]]
         \o DocumentRules(Tail(docSheets))

ClaimedKeywords ==
    { <<99, 111, 108, 111, 114>>,   \* "color"
      <<98, 97, 99, 107, 103, 114, 111, 117, 110, 100>>,   \* "background"
      <<98, 111, 114, 100, 101, 114>>,   \* "border"
      <<114, 103, 98>>, <<104, 115, 108>>, <<104, 115, 118>>, <<35>>,   \* "rgb" "hsl" "hsv" "#"
      <<118, 97, 114, 40, 45, 45>> }   \* "var(--"

MentionsColor(r) ==
    LET lowered == Lower(r.text)
    IN  \E k \in ClaimedKeywords : Includes(lowered, k)

ExpectedRules == SelectSeq(DocumentRules(styleSheets), MentionsColor)

\* C3: a stylesheet whose rule list cannot be read contributes no rules, the
\* other stylesheets are still scanned, and the rule scan does not abort the
\* run: unless the evaluation itself broke down, it returns the kept rules of
\* the readable sheets.
C3_UnreadableSheetSkipped ==
    \A i \in 1..Len(trace) :
        (trace[i].op = "evaluate_stylesheets" /\ trace[i].result # "error") =>
            /\ trace[i].result = "ok"
            /\ "color_rules" \in DOMAIN colors_info
            /\ Len(colors_info.color_rules) = Len(ExpectedRules)
            /\ \A k \in 1..Len(ExpectedRules) :
                 colors_info.color_rules[k].rule = ExpectedRules[k].text

\* C5: color_rules holds exactly the rules whose lowercased text contains a
\* keyword, each once, sheet after sheet and in rule order within a sheet.
C5_ColorRulesExact ==
    "color_rules" \in DOMAIN colors_info =>
        LET expected == ExpectedRules IN
        /\ Len(colors_info.color_rules) = Len(expected)
        /\ \A k \in 1..Len(expected) :
             colors_info.color_rules[k].rule = expected[k].text

\* C5 witness: a returned result for two sheets with rules, where a rule is
\* dropped and a rule is kept for its lowercased text only
C5_Witness ==
    /\ pc = "extracted"
    /\ Len(styleSheets) = 2
    /\ \A i \in 1..2 : styleSheets[i].cssRules # <<>>
    /\ Len(colors_info.color_rules) = 2
    /\ Len(DocumentRules(styleSheets)) = 3
    /\ colors_info.color_rules[1].rule # colors_info.color_rules[2].rule
    /\ \E k \in 1..2 :
         LET r == colors_info.color_rules[k].rule IN
         ~ \E w \in ClaimedKeywords : Includes(r, w)

\* C6: every entry of color_rules names its sheet's URL, or "inline" when the
\* sheet has none.
C6_SourceOrInline ==
    "color_rules" \in DOMAIN colors_info =>
        /\ Len(colors_info.color_rules) = Len(ExpectedRules)
        /\ \A k \in 1..Len(ExpectedRules) :
             colors_info.color_rules[k].source =
                 IF ExpectedRules[k].href = None THEN "inline" ELSE ExpectedRules[k].href

ClaimedNameParts ==
    { <<99, 111, 108, 111, 114>>, <<116, 104, 101, 109, 101>>, <<104, 117, 101>> }   \* "color" "theme" "hue"

\* v is raw without its leading and trailing whitespace
IsTrimOf(v, raw) ==
    /\ v # <<>> => v[1] \notin Whitespace /\ v[Len(v)] \notin Whitespace
    /\ \E a \in 0..Len(raw) :
         /\ a + Len(v) <= Len(raw)
         /\ SubSeq(raw, a + 1, a + Len(v)) = v
         /\ \A k \in (1..a) \cup ((a + Len(v) + 1)..Len(raw)) : raw[k] \in Whitespace

\* C7: every key of css_variables is a property of the root whose name
\* contains "color", "theme" or "hue" as written, and its value is the
\* property's value trimmed.
C7_VariablesFiltered ==
    "css_variables" \in DOMAIN colors_info =>
        \A name \in DOMAIN colors_info.css_variables :
            /\ \E part \in ClaimedNameParts : Includes(name, part)
            /\ \E i \in 1..Len(rootStyle) :
                 /\ rootStyle[i].name = name
                 /\ IsTrimOf(colors_info.css_variables[name], rootStyle[i].value)

\* C7 witness: a returned result that keeps a property whose value had
\* whitespace around it and leaves another property out
C7_Witness ==
    /\ pc = "extracted"
    /\ \E i, j \in 1..Len(rootStyle) :
         /\ rootStyle[i].name \in DOMAIN colors_info.css_variables
         /\ colors_info.css_variables[rootStyle[i].name] # rootStyle[i].value
         /\ rootStyle[j].name \notin DOMAIN colors_info.css_variables

SamplesOf(sel) ==
    Cardinality({k \in 1..Len(colors_info.element_colors) :
                    colors_info.element_colors[k].selector = sel})

\* C4: the number of samples recorded for a selector is the number of
\* elements it matches, up to 5.
C4_SamplesPerSelector ==
    "element_colors" \in DOMAIN colors_info =>
        \A i \in 1..Len(selectors) :
            SamplesOf(selectors[i]) = Min(5, matchCount[selectors[i]])

\* C10: a selector whose processing throws adds no entry, the selectors after
\* it are still processed in list order, and the scan returns normally.
C10_ThrowingSelectorSkipped ==
    \A i \in 1..Len(trace) :
        (trace[i].op = "evaluate_element_colors" /\ trace[i].result # "error") =>
            /\ trace[i].result = "ok"
            /\ scanLog.visited = selectors
            /\ "element_colors" \in DOMAIN colors_info
            /\ \A sel \in scanLog.threw : SamplesOf(sel) = 0

\* C10 witness: a returned result of a scan in which a selector that matches
\* more elements than the limit threw
C10_Witness ==
    /\ pc = "extracted"
    /\ \E sel \in scanLog.threw : matchCount[sel] > SampleLimit

\* C8: once the script is through, settings.json holds what it held before
\* the run, or is absent if it was absent; while the command runs it holds the
\* replacement configuration.
C8_ConfigRestored ==
    /\ lpc = "done" => cfg = origCfg
    /\ lpc = "running" => cfg = <<new_config>>

\* C8 witness: the script is through where a stale backup, different from
\* the configuration, lay beside it
C8_Witness ==
    /\ lpc = "done"
    /\ origCfg # <<>>
    /\ origBak # <<>>
    /\ origBak # origCfg
    /\ origCfg # <<new_config>>

====

